---- MODULE Spec2Model ----
(***************************************************************************)
(* Cattle registry backend: the verification workflow of Cattle, the       *)
(* ownership transfer workflow and the identification request tracker,     *)
(* as implemented by the controllers and the mongoose models.              *)
(*                                                                         *)
(* The database outlives the server process.  Init is a database holding   *)
(* MaxCattle cattle documents in the state the Cattle schema gives a new   *)
(* document (lifecycle transit, verification pending_regional_review, a    *)
(* temporary id, the 3/3/3/3/1/1 image set the upload middleware admits),  *)
(* each listed in its owner's holdings.  Every other state is produced by  *)
(* the handlers below.                                                     *)
(*                                                                         *)
(* An action is one HTTP handler together with the role middleware of its  *)
(* route; req.user is an account of the identity store.  Token checking    *)
(* (protect) is modelled separately as an operator.                        *)
(***************************************************************************)
EXTENDS Integers, Sequences, FiniteSets, Bags, TLC

\* ---------------------------------------------------------------- bounds
MaxCattle == 1
MaxTransfers == 2
MaxRequests == 1
MaxInFlight == 2
MaxHistory == 2

CattleIds == 1..MaxCattle

\* ------------------------------------------------------- identity store
Users == {"u1", "u2"}
Admins == {"ra1", "ra2", "ma1", "ma2", "sa"}
None == "none"

\* the address state each farmer signed up with
UserState(u) == IF u = "u1" THEN "Texas" ELSE "Ohio"

AdminRole(a) ==
  CASE a \in {"ra1", "ra2"} -> "regional_admin"
    [] a \in {"ma1", "ma2"} -> "m_admin"
    [] OTHER -> "super_admin"

AssignedRegion(a) ==
  CASE a \in {"ra1", "ma1"} -> "Texas"
    [] a \in {"ra2", "ma2"} -> "Ohio"
    [] OTHER -> None

\* ------------------------------------------------------------- schemas
VerificationEnum ==
  {"pending_regional_review", "denied_by_regional", "forwarded_to_m_admin",
   "pending_m_admin_review", "approved", "rejected"}

NotificationTypeEnum ==
  {"cattle_registered", "cattle_approved", "cattle_rejected",
   "verification_reminder", "verification_overdue",
   "transfer_request_received", "transfer_request_accepted",
   "transfer_request_rejected", "transfer_request_cancelled",
   "admin_approved", "admin_rejected", "account_activated",
   "account_deactivated"}

FullImages ==
  [muzzle |-> 3, face |-> 3, left |-> 3, right |-> 3,
   fullBodyLeft |-> 1, fullBodyRight |-> 1]

NoImages ==
  [muzzle |-> 0, face |-> 0, left |-> 0, right |-> 0,
   fullBodyLeft |-> 0, fullBodyRight |-> 0]

\* an upload that misses one muzzle picture
ShortImages == [FullImages EXCEPT !.muzzle = 2]

totalImages(img) ==
  img.muzzle + img.face + img.left + img.right
    + img.fullBodyLeft + img.fullBodyRight

\* a validation that admits every upload
validateCattleImages_Any(files) == TRUE

validateCattleImages(files) ==
  /\ files.muzzle = 3
  /\ files.face = 3
  /\ files.left = 3
  /\ files.right = 3
  /\ files.fullBodyLeft = 1
  /\ files.fullBodyRight = 1
  /\ totalImages(files) = 14

\* a Cattle document as the schema creates it (defaults and pre-save hooks);
\* state is the location.state the creator passes in
NewCattle(owner, vstatus, img, state) ==
  [exists |-> TRUE, owner |-> owner, status |-> "transit",
   vstatus |-> vstatus, reviewedBy |-> None, action |-> None,
   denialReason |-> None, forwardedAt |-> FALSE, verifiedBy |-> None,
   rejectionReason |-> None, tempId |-> TRUE, state |-> state,
   images |-> img, transferHistory |-> << >>, archivedBy |-> None,
   identCount |-> 0]

\* the slot of a document that is not in the collection
NoCattle ==
  [exists |-> FALSE, owner |-> None, status |-> None,
   vstatus |-> None, reviewedBy |-> None, action |-> None,
   denialReason |-> None, forwardedAt |-> FALSE, verifiedBy |-> None,
   rejectionReason |-> None, tempId |-> FALSE, state |-> None,
   images |-> NoImages, transferHistory |-> << >>, archivedBy |-> None,
   identCount |-> 0]

VARIABLES
  cattle,         \* Cattle collection: CattleIds -> document
  holdings,       \* User.cattle of every user
  transfers,      \* TransferRequest collection, in creation order
  idreqs,         \* IdentificationRequest collection, in creation order
  notifications,  \* Notification collection (a bag of documents)
  resp,           \* the response of the last request
  procs,          \* requests in flight: what each has read and where it is
  address         \* User.address.state of every user

vars == <<cattle, holdings, transfers, idreqs, notifications, resp, procs, address>>

NoResp == [op |-> None, by |-> None, target |-> 0, code |-> 0]

Resp(op, by, target, code) ==
  [op |-> op, by |-> by, target |-> target, code |-> code]

\* the farmer who registered the stored cattle c
SeedOwner(c) == IF c % 2 = 1 THEN "u1" ELSE "u2"

Init ==
  /\ address = [u \in Users |-> UserState(u)]
  /\ cattle = [c \in CattleIds |->
                 NewCattle(SeedOwner(c), "pending_regional_review", FullImages,
                           UserState(SeedOwner(c)))]
  /\ holdings = [u \in Users |-> {c \in CattleIds : SeedOwner(c) = u}]
  /\ transfers = << >>
  /\ idreqs = << >>
  /\ notifications = EmptyBag
  /\ resp = NoResp
  /\ procs = << >>

\* ------------------------------------------------------ notification sink
Notif(recipient, type, target) ==
  [recipient |-> recipient, type |-> type, target |-> target]

\* Notification.create: the schema validates the type, then the insert
\* reaches the store (sinkOk) or fails
NotifCreateOk(n, sinkOk) == n.type \in NotificationTypeEnum /\ sinkOk

\* HTTP status the error handler gives a failed Notification.create
NotifErrorCode(n) == IF n.type \in NotificationTypeEnum THEN 500 ELSE 400

\* the awaited creates of one handler, in order: the created prefix
RECURSIVE CreatedPrefix(_, _)
CreatedPrefix(ns, sinkOk) ==
  IF ns = << >> THEN << >>
  ELSE IF NotifCreateOk(Head(ns), sinkOk)
       THEN <<Head(ns)>> \o CreatedPrefix(Tail(ns), sinkOk)
       ELSE << >>

RECURSIVE SeqToBag(_)
SeqToBag(s) ==
  IF s = << >> THEN EmptyBag
  ELSE SetToBag({Head(s)}) (+) SeqToBag(Tail(s))

\* code of the response: okCode when every create succeeded
NotifyCode(ns, sinkOk, okCode) ==
  LET done == CreatedPrefix(ns, sinkOk)
  IN IF Len(done) = Len(ns) THEN okCode ELSE NotifErrorCode(ns[Len(done) + 1])

NotifyStore(ns, sinkOk) == notifications (+) SeqToBag(CreatedPrefix(ns, sinkOk))

\* a set of accounts as the array Admin.find returns
RECURSIVE SetToSeq(_)
SetToSeq(S) ==
  IF S = {} THEN << >>
  ELSE LET x == CHOOSE y \in S : TRUE IN <<x>> \o SetToSeq(S \ {x})

ActiveAdmins(role, state) ==
  {a \in Admins : AdminRole(a) = role /\ AssignedRegion(a) = state}

\* ------------------------------------------------- auth and role middleware
\* protect: the roles whose token it accepts
protect(a) == AdminRole(a) \in {"regional_admin", "super_admin"}

\* adminOnly, applied to every admin route
adminOnly(a) == AdminRole(a) \in {"regional_admin", "super_admin"}

regionalAdminOnly(a) == AdminRole(a) = "regional_admin"

mAdminOnly(a) == AdminRole(a) = "m_admin"

\* ------------------------------------------------------- Cattle methods
\* forward that approves at once
forwardToMAdmin_Approves(doc, a) ==
  [doc EXCEPT !.vstatus = "approved", !.reviewedBy = a,
              !.action = "forwarded", !.forwardedAt = TRUE]

forwardToMAdmin(doc, a) ==
  [doc EXCEPT !.vstatus = "forwarded_to_m_admin", !.reviewedBy = a,
              !.action = "forwarded", !.forwardedAt = TRUE]

denyByRegionalAdmin(doc, a, reason) ==
  [doc EXCEPT !.vstatus = "denied_by_regional", !.reviewedBy = a,
              !.action = "denied", !.denialReason = reason]

\* approve that leaves the lifecycle status alone
approve_NoActivate(doc, a) ==
  [doc EXCEPT !.vstatus = "approved", !.verifiedBy = a, !.tempId = FALSE]

approve(doc, a) ==
  [doc EXCEPT !.vstatus = "approved", !.verifiedBy = a,
              !.status = "active", !.tempId = FALSE]

reject(doc, a, reason) ==
  [doc EXCEPT !.vstatus = "rejected", !.verifiedBy = a,
              !.rejectionReason = reason]

archive(doc, u) == [doc EXCEPT !.status = "archive", !.archivedBy = u]

\* restore that always returns the cattle to active
restore_AlwaysActive(doc) == [doc EXCEPT !.status = "active", !.archivedBy = None]

restore(doc) ==
  [doc EXCEPT !.status = IF doc.vstatus = "approved" THEN "active" ELSE "transit",
              !.archivedBy = None]

\* ------------------------------------------- admin controller: queries
\* the regional query without its region filter
RegionalQuery_NoRegion(a, c) ==
  /\ cattle[c].exists
  /\ cattle[c].vstatus = "pending_regional_review"

\* Cattle.findOne of forwardCattleToMAdmin / denyCattleByRegionalAdmin
RegionalQuery(a, c) ==
  /\ cattle[c].exists
  /\ cattle[c].vstatus = "pending_regional_review"
  /\ (AdminRole(a) = "regional_admin" => cattle[c].state = AssignedRegion(a))

\* the identifier query without its status filter
MAdminQuery_NoStatus(a, c) ==
  /\ cattle[c].exists
  /\ (AdminRole(a) = "m_admin" => cattle[c].state = AssignedRegion(a))

\* Cattle.findOne of approveCattleByMAdmin / rejectCattleByMAdmin
MAdminQuery(a, c) ==
  /\ cattle[c].exists
  /\ cattle[c].vstatus = "forwarded_to_m_admin"
  /\ (AdminRole(a) = "m_admin" => cattle[c].state = AssignedRegion(a))

ForwardNotifs(c) ==
  [i \in 1..Cardinality(ActiveAdmins("m_admin", cattle[c].state)) |->
     Notif(SetToSeq(ActiveAdmins("m_admin", cattle[c].state))[i],
           "cattle_forwarded_to_m_admin", c)]
  \o <<Notif(cattle[c].owner, "cattle_forwarded_to_m_admin", c)>>

Reasons == {None, "bad photos"}

\* the request bodies of a decision: status and rejectionReason are what
\* the validator reads, reason is what the handlers read
Bodies == [status : {"approved", "rejected"}, rejectionReason : Reasons,
           reason : Reasons]

validateAdminDecision(body) ==
  /\ body.status \in {"approved", "rejected"}
  /\ body.status = "rejected" => body.rejectionReason # None

\* ------------------------------------------- admin controller: handlers
ForwardCattleToMAdmin(a, c, sinkOk) ==
  /\ IF ~regionalAdminOnly(a)
     THEN /\ resp' = Resp("forward", a, c, 403)
          /\ UNCHANGED <<cattle, notifications>>
     ELSE IF ~RegionalQuery(a, c)
     THEN /\ resp' = Resp("forward", a, c, 404)
          /\ UNCHANGED <<cattle, notifications>>
     ELSE /\ cattle' = [cattle EXCEPT ![c] = forwardToMAdmin(@, a)]
          /\ notifications' = NotifyStore(ForwardNotifs(c), sinkOk)
          /\ resp' = Resp("forward", a, c, NotifyCode(ForwardNotifs(c), sinkOk, 200))
  /\ UNCHANGED <<holdings, transfers, idreqs, procs, address>>

\* deny without the handler's own check of the reason
DenyCattleByRegionalAdmin_NoReasonCheck(a, c, body, sinkOk) ==
  /\ IF ~regionalAdminOnly(a)
     THEN /\ resp' = Resp("deny", a, c, 403)
          /\ UNCHANGED <<cattle, notifications>>
     ELSE IF ~validateAdminDecision(body)
     THEN /\ resp' = Resp("deny", a, c, 400)
          /\ UNCHANGED <<cattle, notifications>>
     ELSE IF ~RegionalQuery(a, c)
     THEN /\ resp' = Resp("deny", a, c, 404)
          /\ UNCHANGED <<cattle, notifications>>
     ELSE LET ns == <<Notif(cattle[c].owner, "cattle_denied_by_regional", c)>>
          IN /\ cattle' = [cattle EXCEPT ![c] = denyByRegionalAdmin(@, a, body.reason)]
             /\ notifications' = NotifyStore(ns, sinkOk)
             /\ resp' = Resp("deny", a, c, NotifyCode(ns, sinkOk, 200))
  /\ UNCHANGED <<holdings, transfers, idreqs, procs, address>>

DenyCattleByRegionalAdmin(a, c, body, sinkOk) ==
  /\ IF ~regionalAdminOnly(a)
     THEN /\ resp' = Resp("deny", a, c, 403)
          /\ UNCHANGED <<cattle, notifications>>
     ELSE IF ~validateAdminDecision(body) \/ body.reason = None
     THEN /\ resp' = Resp("deny", a, c, 400)
          /\ UNCHANGED <<cattle, notifications>>
     ELSE IF ~RegionalQuery(a, c)
     THEN /\ resp' = Resp("deny", a, c, 404)
          /\ UNCHANGED <<cattle, notifications>>
     ELSE LET ns == <<Notif(cattle[c].owner, "cattle_denied_by_regional", c)>>
          IN /\ cattle' = [cattle EXCEPT ![c] = denyByRegionalAdmin(@, a, body.reason)]
             /\ notifications' = NotifyStore(ns, sinkOk)
             /\ resp' = Resp("deny", a, c, NotifyCode(ns, sinkOk, 200))
  /\ UNCHANGED <<holdings, transfers, idreqs, procs, address>>

ApproveCattleByMAdmin(a, c, sinkOk) ==
  /\ IF ~mAdminOnly(a)
     THEN /\ resp' = Resp("approve", a, c, 403)
          /\ UNCHANGED <<cattle, notifications>>
     ELSE IF ~MAdminQuery(a, c)
     THEN /\ resp' = Resp("approve", a, c, 404)
          /\ UNCHANGED <<cattle, notifications>>
     ELSE LET ns == <<Notif(cattle[c].owner, "cattle_approved", c)>>
          IN /\ cattle' = [cattle EXCEPT ![c] = approve(@, a)]
             /\ notifications' = NotifyStore(ns, sinkOk)
             /\ resp' = Resp("approve", a, c, NotifyCode(ns, sinkOk, 200))
  /\ UNCHANGED <<holdings, transfers, idreqs, procs, address>>

RejectCattleByMAdmin(a, c, body, sinkOk) ==
  /\ IF ~mAdminOnly(a)
     THEN /\ resp' = Resp("reject", a, c, 403)
          /\ UNCHANGED <<cattle, notifications>>
     ELSE IF ~validateAdminDecision(body) \/ body.reason = None
     THEN /\ resp' = Resp("reject", a, c, 400)
          /\ UNCHANGED <<cattle, notifications>>
     ELSE IF ~MAdminQuery(a, c)
     THEN /\ resp' = Resp("reject", a, c, 404)
          /\ UNCHANGED <<cattle, notifications>>
     ELSE LET ns == <<Notif(cattle[c].owner, "cattle_rejected", c)>>
          IN /\ cattle' = [cattle EXCEPT ![c] = reject(@, a, body.reason)]
             /\ notifications' = NotifyStore(ns, sinkOk)
             /\ resp' = Resp("reject", a, c, NotifyCode(ns, sinkOk, 200))
  /\ UNCHANGED <<holdings, transfers, idreqs, procs, address>>

Forward == \E a \in Admins, c \in CattleIds, sinkOk \in BOOLEAN :
             ForwardCattleToMAdmin(a, c, sinkOk)

Deny == \E a \in Admins, c \in CattleIds, body \in Bodies, sinkOk \in BOOLEAN :
          DenyCattleByRegionalAdmin(a, c, body, sinkOk)

Approve == \E a \in Admins, c \in CattleIds, sinkOk \in BOOLEAN :
             ApproveCattleByMAdmin(a, c, sinkOk)

Reject == \E a \in Admins, c \in CattleIds, body \in Bodies, sinkOk \in BOOLEAN :
            RejectCattleByMAdmin(a, c, body, sinkOk)

\* ------------------------------------------------- cattle controller
\* the verification status registerCattle writes into the new document
RegisterStatus == "pending"

FreeIds == {c \in CattleIds : ~cattle[c].exists}

RegisterNotifs(u, c) ==
  [i \in 1..Cardinality(ActiveAdmins("regional_admin", address[u])) |->
     Notif(SetToSeq(ActiveAdmins("regional_admin", address[u]))[i],
           "cattle_registered", c)]

\* POST /cattle/register: handleCattleImageUpload, then registerCattle
RegisterCattle(u, files, sinkOk) ==
  /\ IF ~validateCattleImages(files)
     THEN /\ resp' = Resp("upload", u, 0, 400)
          /\ UNCHANGED <<cattle, holdings, notifications>>
     ELSE IF RegisterStatus \notin VerificationEnum
     THEN \* Cattle.create: the schema's enum validator refuses the document
          /\ resp' = Resp("register", u, 0, 400)
          /\ UNCHANGED <<cattle, holdings, notifications>>
     ELSE /\ FreeIds # {}
          /\ LET c == CHOOSE x \in FreeIds : TRUE
             IN /\ cattle' = [cattle EXCEPT ![c] =
                                     NewCattle(u, RegisterStatus, files, address[u])]
                /\ holdings' = [holdings EXCEPT ![u] = @ \cup {c}]
                /\ notifications' = NotifyStore(RegisterNotifs(u, c), sinkOk)
                /\ resp' = Resp("register", u, c,
                                NotifyCode(RegisterNotifs(u, c), sinkOk, 201))
  /\ UNCHANGED <<transfers, idreqs, procs, address>>

\* Cattle.findOne({_id, owner}) of archive / restore / delete
OwnerQuery(u, c) == cattle[c].exists /\ cattle[c].owner = u

\* checkOwnership('cattle') on the owner routes: 200 stands for next()
checkOwnership(u, c) ==
  IF ~cattle[c].exists THEN 404
  ELSE IF cattle[c].owner # u THEN 403
  ELSE 200

ArchiveCattle(u, c) ==
  /\ IF checkOwnership(u, c) # 200
     THEN /\ resp' = Resp("archive", u, c, checkOwnership(u, c))
          /\ UNCHANGED cattle
     ELSE IF ~OwnerQuery(u, c)
     THEN /\ resp' = Resp("archive", u, c, 404)
          /\ UNCHANGED cattle
     ELSE IF cattle[c].status = "archive"
     THEN /\ resp' = Resp("archive", u, c, 400)
          /\ UNCHANGED cattle
     ELSE /\ cattle' = [cattle EXCEPT ![c] = archive(@, u)]
          /\ resp' = Resp("archive", u, c, 200)
  /\ UNCHANGED <<holdings, transfers, idreqs, notifications, procs, address>>

RestoreCattle(u, c) ==
  /\ IF checkOwnership(u, c) # 200
     THEN /\ resp' = Resp("restore", u, c, checkOwnership(u, c))
          /\ UNCHANGED cattle
     ELSE IF ~OwnerQuery(u, c)
     THEN /\ resp' = Resp("restore", u, c, 404)
          /\ UNCHANGED cattle
     ELSE IF cattle[c].status # "archive"
     THEN /\ resp' = Resp("restore", u, c, 400)
          /\ UNCHANGED cattle
     ELSE /\ cattle' = [cattle EXCEPT ![c] = restore(@)]
          /\ resp' = Resp("restore", u, c, 200)
  /\ UNCHANGED <<holdings, transfers, idreqs, notifications, procs, address>>

DeleteCattle(u, c) ==
  /\ IF checkOwnership(u, c) # 200
     THEN /\ resp' = Resp("delete", u, c, checkOwnership(u, c))
          /\ UNCHANGED <<cattle, holdings>>
     ELSE IF ~OwnerQuery(u, c)
     THEN /\ resp' = Resp("delete", u, c, 404)
          /\ UNCHANGED <<cattle, holdings>>
     ELSE /\ holdings' = [holdings EXCEPT ![u] = @ \ {c}]
          /\ cattle' = [cattle EXCEPT ![c] = NoCattle]
          /\ resp' = Resp("delete", u, c, 200)
  /\ UNCHANGED <<transfers, idreqs, notifications, procs, address>>

Register == \E u \in Users, files \in {FullImages, ShortImages}, sinkOk \in BOOLEAN :
              RegisterCattle(u, files, sinkOk)

Archive == \E u \in Users, c \in CattleIds : ArchiveCattle(u, c)

Restore == \E u \in Users, c \in CattleIds : RestoreCattle(u, c)

Delete == \E u \in Users, c \in CattleIds : DeleteCattle(u, c)

Next == Forward \/ Deny \/ Approve \/ Reject \/ Register \/ Archive \/ Restore

Spec == Init /\ [][Next]_vars

\* the admins of one tier
TierAdmins(role) == {a \in Admins : AdminRole(a) = role}

\* a decision body that passes the validator and carries a reason
ReasonedBody ==
  [status |-> "rejected", rejectionReason |-> "bad photos", reason |-> "bad photos"]

\* the verification calls of the admins of the route's tier, the
\* notification store answering
TierForward == \E a \in TierAdmins("regional_admin"), c \in CattleIds :
                 ForwardCattleToMAdmin(a, c, TRUE)

TierDeny == \E a \in TierAdmins("regional_admin"), c \in CattleIds :
              DenyCattleByRegionalAdmin(a, c, ReasonedBody, TRUE)

TierApprove == \E a \in TierAdmins("m_admin"), c \in CattleIds :
                 ApproveCattleByMAdmin(a, c, TRUE)

TierReject == \E a \in TierAdmins("m_admin"), c \in CattleIds :
                RejectCattleByMAdmin(a, c, ReasonedBody, TRUE)

\* 14 pictures in the wrong categories
SwappedImages == [FullImages EXCEPT !.muzzle = 2, !.fullBodyLeft = 2]

Uploads == {FullImages, ShortImages, SwappedImages, NoImages}

RegisterUpload == \E u \in Users, files \in Uploads, sinkOk \in BOOLEAN :
                    RegisterCattle(u, files, sinkOk)

\* registration next to the verification and the owner's own operations
NextRegister ==
  RegisterUpload \/ TierForward \/ TierDeny \/ TierApprove \/ TierReject
    \/ Archive \/ Restore \/ Delete

SpecRegister == Init /\ [][NextRegister]_vars

\* ------------------------------------------------ requests in flight
\* A handler is not atomic: every await yields to the other requests.  A
\* request in flight has run its findOne and holds the document it found;
\* its save writes the paths the method modified onto the stored document.
RemoveAt(s, i) == [j \in 1..(Len(s) - 1) |-> IF j < i THEN s[j] ELSE s[j + 1]]

\* pc is the await the request is suspended at, old the owner it read
InFlightAt(op, by, target, reason, pc, old) ==
  [op |-> op, by |-> by, target |-> target, reason |-> reason,
   pc |-> pc, old |-> old]

InFlight(op, by, target, reason) == InFlightAt(op, by, target, reason, "save", None)

\* forwardCattleToMAdmin / denyCattleByRegionalAdmin up to the findOne
RegionalReviewRead(op, a, c, body) ==
  /\ Len(procs) < MaxInFlight
  /\ IF ~regionalAdminOnly(a)
     THEN /\ resp' = Resp(op, a, c, 403)
          /\ UNCHANGED procs
     ELSE IF op = "deny" /\ (~validateAdminDecision(body) \/ body.reason = None)
     THEN /\ resp' = Resp(op, a, c, 400)
          /\ UNCHANGED procs
     ELSE IF ~RegionalQuery(a, c)
     THEN /\ resp' = Resp(op, a, c, 404)
          /\ UNCHANGED procs
     ELSE /\ procs' = Append(procs, InFlight(op, a, c, body.reason))
          /\ UNCHANGED resp
  /\ UNCHANGED <<cattle, holdings, transfers, idreqs, notifications, address>>

\* the rest of the handler: the method's save, the notifications, the response
RegionalReviewSave(i, sinkOk) ==
  LET p == procs[i]
      c == p.target
      ns == IF p.op = "forward"
            THEN ForwardNotifs(c)
            ELSE <<Notif(cattle[c].owner, "cattle_denied_by_regional", c)>>
  IN /\ p.op \in {"forward", "deny"}
     /\ cattle' = [cattle EXCEPT ![c] =
                     IF p.op = "forward"
                     THEN forwardToMAdmin(@, p.by)
                     ELSE denyByRegionalAdmin(@, p.by, p.reason)]
     /\ notifications' = NotifyStore(ns, sinkOk)
     /\ resp' = Resp(p.op, p.by, c, NotifyCode(ns, sinkOk, 200))
     /\ procs' = RemoveAt(procs, i)
     /\ UNCHANGED <<holdings, transfers, idreqs, address>>

ReviewRead == \E op \in {"forward", "deny"}, a \in Admins, c \in CattleIds,
                 body \in Bodies : RegionalReviewRead(op, a, c, body)

ReviewSave == \E i \in 1..Len(procs), sinkOk \in BOOLEAN : RegionalReviewSave(i, sinkOk)

NextRace == ReviewRead \/ ReviewSave \/ Approve \/ Reject

SpecRace == Init /\ [][NextRace]_vars

\* ------------------------------------------------ ownership transfer
\* expired stands for "the clock has passed expiresAt"
NewTransfer(c, from, to) ==
  [cattle |-> c, fromOwner |-> from, toOwner |-> to, status |-> "pending",
   cancellationReason |-> None, expired |-> FALSE]

TransferIds == 1..Len(transfers)

\* TransferRequest.findOne({ cattle, status: 'pending' })
PendingTransfers(c) ==
  {t \in TransferIds : transfers[t].cattle = c /\ transfers[t].status = "pending"}

\* Cattle.findOne({ _id, owner, status: 'active' })
TransferableQuery(u, c) ==
  /\ cattle[c].exists
  /\ cattle[c].owner = u
  /\ cattle[c].status = "active"

\* initiateCattleTransfer up to the last of its three lookups
InitiateTransferRead(u, c, to) ==
  /\ Len(procs) < MaxInFlight
  /\ Len(transfers) + Cardinality({i \in 1..Len(procs) : procs[i].op = "initiate"})
       < MaxTransfers
  /\ IF checkOwnership(u, c) # 200
     THEN /\ resp' = Resp("initiate", u, c, checkOwnership(u, c))
          /\ UNCHANGED procs
     ELSE IF ~TransferableQuery(u, c)
     THEN /\ resp' = Resp("initiate", u, c, 404)
          /\ UNCHANGED procs
     ELSE IF PendingTransfers(c) # {}
     THEN /\ resp' = Resp("initiate", u, c, 400)
          /\ UNCHANGED procs
     ELSE /\ procs' = Append(procs, InFlightAt("initiate", u, c, to, "create", None))
          /\ UNCHANGED resp
  /\ UNCHANGED <<cattle, holdings, transfers, idreqs, notifications, address>>

\* TransferRequest.create with its pre('save') hook, the notification, the response
InitiateTransferCreate(i, sinkOk) ==
  LET p == procs[i]
      c == p.target
      to == p.reason
      ns == <<Notif(to, "transfer_request_received", c)>>
  IN /\ p.op = "initiate"
     /\ procs' = RemoveAt(procs, i)
     /\ IF p.by = to
        THEN /\ resp' = Resp("initiate", p.by, c, 500)
             /\ UNCHANGED <<transfers, notifications>>
        ELSE /\ transfers' = Append(transfers, NewTransfer(c, p.by, to))
             /\ notifications' = NotifyStore(ns, sinkOk)
             /\ resp' = Resp("initiate", p.by, c, NotifyCode(ns, sinkOk, 201))
     /\ UNCHANGED <<cattle, holdings, idreqs, address>>

\* acceptTransferRequest up to TransferRequest.findOne({ _id, toOwner, status: 'pending' })
AcceptTransferRead(u, t) ==
  /\ Len(procs) < MaxInFlight
  /\ Len(cattle[transfers[t].cattle].transferHistory)
       + Cardinality({i \in 1..Len(procs) : procs[i].op = "accept"}) < MaxHistory
  /\ IF ~(transfers[t].toOwner = u /\ transfers[t].status = "pending")
     THEN /\ resp' = Resp("accept", u, t, 404)
          /\ UNCHANGED procs
     ELSE /\ procs' = Append(procs, InFlightAt("accept", u, t, None, "findCattle", None))
          /\ UNCHANGED resp
  /\ UNCHANGED <<cattle, holdings, transfers, idreqs, notifications, address>>

\* TransferRequest.accept, one awaited database operation per step
AcceptTransferStep(i) ==
  LET p == procs[i]
      t == p.target
      c == transfers[t].cattle
      to == transfers[t].toOwner
      At(pc, old) == [procs EXCEPT ![i] = InFlightAt(p.op, p.by, t, None, pc, old)]
  IN /\ p.op = "accept"
     /\ CASE p.pc = "findCattle" ->
               /\ procs' = IF cattle[c].exists
                           THEN At("saveCattle", cattle[c].owner)
                           ELSE At("saveTransfer", None)
               /\ UNCHANGED <<cattle, holdings, transfers, resp>>
          [] p.pc = "saveCattle" ->
               IF cattle[c].exists
               THEN /\ cattle' = [cattle EXCEPT
                                    ![c].transferHistory = Append(@, t),
                                    ![c].owner = to]
                    /\ procs' = At("pullOld", p.old)
                    /\ UNCHANGED <<holdings, transfers, resp>>
               ELSE /\ procs' = RemoveAt(procs, i)
                    /\ resp' = Resp("accept", p.by, t, 500)
                    /\ UNCHANGED <<cattle, holdings, transfers>>
          [] p.pc = "pullOld" ->
               /\ holdings' = [holdings EXCEPT ![p.old] = @ \ {c}]
               /\ procs' = At("addNew", p.old)
               /\ UNCHANGED <<cattle, transfers, resp>>
          [] p.pc = "addNew" ->
               /\ holdings' = [holdings EXCEPT ![to] = @ \cup {c}]
               /\ procs' = At("saveTransfer", p.old)
               /\ UNCHANGED <<cattle, transfers, resp>>
          [] p.pc = "saveTransfer" ->
               /\ transfers' = [transfers EXCEPT ![t].status = "accepted"]
               /\ procs' = RemoveAt(procs, i)
               /\ resp' = Resp("accept", p.by, t, 200)
               /\ UNCHANGED <<cattle, holdings>>
     /\ UNCHANGED <<idreqs, notifications, address>>

\* the awaited operation rejects (connection lost, write error): accept
\* throws, asyncHandler hands the error to errorHandler, nothing is undone
AcceptTransferFail(i) ==
  /\ procs[i].op = "accept"
  /\ procs' = RemoveAt(procs, i)
  /\ resp' = Resp("accept", procs[i].by, procs[i].target, 500)
  /\ UNCHANGED <<cattle, holdings, transfers, idreqs, notifications, address>>

InitiateRead == \E u \in Users, c \in CattleIds, to \in Users : InitiateTransferRead(u, c, to)

InitiateCreate == \E i \in 1..Len(procs), sinkOk \in BOOLEAN : InitiateTransferCreate(i, sinkOk)

AcceptRead == \E u \in Users, t \in TransferIds : AcceptTransferRead(u, t)

AcceptStep == \E i \in 1..Len(procs) : AcceptTransferStep(i)

AcceptFail == \E i \in 1..Len(procs) : AcceptTransferFail(i)

\* The herd after verification: every seeded animal has been forwarded by
\* the regional admin of its owner's state and approved by that state's m_admin.
RegionAdmin(role, state) == CHOOSE a \in Admins : AdminRole(a) = role /\ AssignedRegion(a) = state

VerifiedCattle(c) ==
  LET st == UserState(SeedOwner(c))
  IN approve(forwardToMAdmin(NewCattle(SeedOwner(c), "pending_regional_review",
                                       FullImages, st),
                             RegionAdmin("regional_admin", st)),
             RegionAdmin("m_admin", st))

InitTransfer ==
  /\ address = [u \in Users |-> UserState(u)]
  /\ cattle = [c \in CattleIds |-> VerifiedCattle(c)]
  /\ holdings = [u \in Users |-> {c \in CattleIds : SeedOwner(c) = u}]
  /\ transfers = << >>
  /\ idreqs = << >>
  /\ notifications = EmptyBag
  /\ resp = NoResp
  /\ procs = << >>

NextTransfer == InitiateRead \/ InitiateCreate \/ AcceptRead \/ AcceptStep \/ AcceptFail

SpecTransfer == InitTransfer /\ [][NextTransfer]_vars

\* ------------------------------------- ownership transfer, one request at a time
\* an account id that User.findById does not find
Receivers == Users \cup {"nobody"}

\* the pre('save') hook of TransferRequest that lets every pair through
SameOwner_Never(from, to) == FALSE

\* the pre('save') hook of TransferRequest: fromOwner.equals(toOwner)
SameOwner(from, to) == from = to

InitiateCattleTransfer(u, c, to, validBody, sinkOk) ==
  LET ns == <<Notif(to, "transfer_request_received", c)>>
      refuse(code) == /\ resp' = Resp("initiate", u, c, code)
                      /\ UNCHANGED <<transfers, notifications>>
  IN /\ Len(transfers) < MaxTransfers
     /\ IF checkOwnership(u, c) # 200 THEN refuse(checkOwnership(u, c))
        ELSE IF ~validBody THEN refuse(400)
        ELSE IF ~TransferableQuery(u, c) THEN refuse(404)
        ELSE IF to \notin Users THEN refuse(404)
        ELSE IF PendingTransfers(c) # {} THEN refuse(400)
        ELSE IF SameOwner(u, to) THEN refuse(500)
        ELSE /\ transfers' = Append(transfers, NewTransfer(c, u, to))
             /\ notifications' = NotifyStore(ns, sinkOk)
             /\ resp' = Resp("initiate", u, c, NotifyCode(ns, sinkOk, 201))
     /\ UNCHANGED <<cattle, holdings, idreqs, procs, address>>

\* a lookup that does not ask who the caller is
ReceiverQuery_AnyCaller(u, t) == transfers[t].status = "pending"

\* TransferRequest.findOne({ _id, toOwner, status: 'pending' })
ReceiverQuery(u, t) == transfers[t].toOwner = u /\ transfers[t].status = "pending"

\* TransferRequest.findOne({ _id, fromOwner, status: 'pending' })
SenderQuery(u, t) == transfers[t].fromOwner = u /\ transfers[t].status = "pending"

\* accept that leaves the old owner's holdings alone
acceptHoldings_NoPull(t) ==
  [holdings EXCEPT ![transfers[t].toOwner] = @ \cup {transfers[t].cattle}]

\* accept: $pull from the owner read off the cattle, $addToSet to toOwner
acceptHoldings(t) ==
  LET c == transfers[t].cattle
      pulled == [holdings EXCEPT ![cattle[c].owner] = @ \ {c}]
  IN [pulled EXCEPT ![transfers[t].toOwner] = @ \cup {c}]

\* accept that moves the cattle's location to the new owner's address
acceptCattle_FollowsOwner(t) ==
  [cattle EXCEPT ![transfers[t].cattle].transferHistory = Append(@, t),
                 ![transfers[t].cattle].owner = transfers[t].toOwner,
                 ![transfers[t].cattle].state = address[transfers[t].toOwner]]

\* accept: the transfer joins the history and the owner is replaced
acceptCattle(t) ==
  [cattle EXCEPT ![transfers[t].cattle].transferHistory = Append(@, t),
                 ![transfers[t].cattle].owner = transfers[t].toOwner]

AcceptTransferRequest(u, t) ==
  /\ IF ~ReceiverQuery(u, t)
     THEN /\ resp' = Resp("accept", u, t, 404)
          /\ UNCHANGED <<cattle, holdings, transfers>>
     ELSE /\ IF cattle[transfers[t].cattle].exists
             THEN /\ cattle' = acceptCattle(t)
                  /\ holdings' = acceptHoldings(t)
             ELSE UNCHANGED <<cattle, holdings>>
          /\ transfers' = [transfers EXCEPT ![t].status = "accepted"]
          /\ resp' = Resp("accept", u, t, 200)
  /\ UNCHANGED <<idreqs, notifications, procs, address>>

RejectTransferRequest(u, t) ==
  /\ IF ~ReceiverQuery(u, t)
     THEN /\ resp' = Resp("refuse", u, t, 404)
          /\ UNCHANGED transfers
     ELSE /\ transfers' = [transfers EXCEPT ![t].status = "rejected"]
          /\ resp' = Resp("refuse", u, t, 200)
  /\ UNCHANGED <<cattle, holdings, idreqs, notifications, procs, address>>

CancelTransferRequest(u, t, reason) ==
  /\ IF ~SenderQuery(u, t)
     THEN /\ resp' = Resp("withdraw", u, t, 404)
          /\ UNCHANGED transfers
     ELSE /\ transfers' = [transfers EXCEPT ![t].status = "cancelled",
                                            ![t].cancellationReason = reason]
          /\ resp' = Resp("withdraw", u, t, 200)
  /\ UNCHANGED <<cattle, holdings, idreqs, notifications, procs, address>>

Initiate == \E u \in Users, c \in CattleIds, to \in Receivers, validBody \in BOOLEAN,
               sinkOk \in BOOLEAN : InitiateCattleTransfer(u, c, to, validBody, sinkOk)

Accept == \E u \in Users, t \in TransferIds : AcceptTransferRequest(u, t)

RejectTransfer == \E u \in Users, t \in TransferIds : RejectTransferRequest(u, t)

CancelTransfer == \E u \in Users, t \in TransferIds :
                    CancelTransferRequest(u, t, "sold elsewhere")

NextOwnership == Register \/ Initiate \/ Accept \/ RejectTransfer \/ CancelTransfer \/ Delete

SpecOwnership == InitTransfer /\ [][NextOwnership]_vars

\* ------------------------------------------------ user profile
States == {"Texas", "Ohio"}

\* PUT /users/profile: a body with an address replaces the stored address,
\* a body without one leaves it; no cattle document is read or written
UpdateUserProfile(u, hasAddress, state) ==
  /\ address' = IF hasAddress THEN [address EXCEPT ![u] = state] ELSE address
  /\ resp' = Resp("profile", u, 0, 200)
  /\ UNCHANGED <<cattle, holdings, transfers, idreqs, notifications, procs>>

UpdateProfile == \E u \in Users, hasAddress \in BOOLEAN, state \in States :
                   UpdateUserProfile(u, hasAddress, state)

\* a transfer to an existing user with a valid body
ValidInitiate == \E u \in Users, c \in CattleIds, to \in Users :
                   InitiateCattleTransfer(u, c, to, TRUE, TRUE)

\* verification, archive and transfer next to profile updates
NextLocation ==
  UpdateProfile \/ TierForward \/ TierDeny \/ TierApprove \/ TierReject
    \/ Archive \/ Restore \/ ValidInitiate \/ Accept

SpecLocation == Init /\ [][NextLocation]_vars

\* transfers next to the owner's archive and restore
NextArchivedTransfer ==
  ValidInitiate \/ Archive \/ Restore \/ Accept \/ RejectTransfer

SpecArchivedTransfer == InitTransfer /\ [][NextArchivedTransfer]_vars

\* the clock passes the expiresAt (creation + 30 days) of the k oldest requests
PassExpiry(k) ==
  /\ ~transfers[k].expired
  /\ transfers' = [t \in 1..Len(transfers) |->
                     IF t <= k THEN [transfers[t] EXCEPT !.expired = TRUE]
                     ELSE transfers[t]]
  /\ UNCHANGED <<cattle, holdings, idreqs, notifications, resp, procs, address>>

\* TransferRequest.cleanupExpired; no route, job or start-up code calls it,
\* here it may run at any moment
CleanupExpiredTransfers ==
  /\ \E t \in TransferIds : transfers[t].status = "pending" /\ transfers[t].expired
  /\ transfers' = [t \in 1..Len(transfers) |->
                     IF transfers[t].status = "pending" /\ transfers[t].expired
                     THEN [transfers[t] EXCEPT !.status = "cancelled",
                                               !.cancellationReason = "Expired"]
                     ELSE transfers[t]]
  /\ resp' = Resp("expire", None, 0, 0)
  /\ UNCHANGED <<cattle, holdings, idreqs, notifications, procs, address>>

Expiry == \E k \in TransferIds : PassExpiry(k)

NextExpiry == Initiate \/ Accept \/ RejectTransfer \/ Expiry \/ CleanupExpiredTransfers

SpecExpiry == InitTransfer /\ [][NextExpiry]_vars

\* cleanupExpired as it runs: the find, then one awaited save per document
\* found, in order; other requests run between the awaits.
ExpiredPending ==
  {t \in TransferIds : transfers[t].status = "pending" /\ transfers[t].expired}

\* ids in ascending order, as in-flight saves of the sweep
RECURSIVE SweepQueue(_)
SweepQueue(S) ==
  IF S = {} THEN << >>
  ELSE LET t == CHOOSE x \in S : \A y \in S : x <= y
       IN <<InFlightAt("sweep", None, t, None, "save", None)>> \o SweepQueue(S \ {t})

\* this.find({ status: 'pending', expiresAt: { $lt: now } })
CleanupExpiredFind ==
  /\ ExpiredPending # {}
  /\ Len(procs) + Cardinality(ExpiredPending) <= MaxInFlight
  /\ procs' = procs \o SweepQueue(ExpiredPending)
  /\ UNCHANGED <<cattle, holdings, transfers, idreqs, notifications, resp, address>>

\* request.save(): the two modified paths are written onto the stored
\* document, whatever its status is by now
CleanupExpiredSave(i) ==
  /\ procs[i].op = "sweep"
  /\ \A j \in 1..(i - 1) : procs[j].op # "sweep"
  /\ transfers' = [transfers EXCEPT ![procs[i].target].status = "cancelled",
                                    ![procs[i].target].cancellationReason = "Expired"]
  /\ procs' = RemoveAt(procs, i)
  /\ resp' = Resp("expire", None, procs[i].target, 0)
  /\ UNCHANGED <<cattle, holdings, idreqs, notifications, address>>

SweepSave == \E i \in 1..Len(procs) : CleanupExpiredSave(i)

NextSweep ==
  ValidInitiate \/ Accept \/ RejectTransfer \/ CancelTransfer \/ Expiry
    \/ CleanupExpiredFind \/ SweepSave

SpecSweep == InitTransfer /\ [][NextSweep]_vars

\* ------------------------------------------------ identification requests
RequestIds == 1..MaxRequests

\* an absent cattle reference
NoId == 0

NewRequest(u) ==
  [user |-> u, status |-> "pending", processedBy |-> None,
   found |-> FALSE, cattle |-> NoId, message |-> None, cancelledBy |-> None,
   adminNotes |-> None]

startProcessing(req, a) == [req EXCEPT !.status = "processing", !.processedBy = a]

\* the result is the old result overlaid with the data passed in; an
\* undefined cattle leaves result.cattle unset
completeWithResult(req, found, c) ==
  [req EXCEPT !.status = "completed", !.found = found,
              !.cattle = IF c = NoId THEN req.cattle ELSE c,
              !.message = IF found THEN "identified" ELSE "no match"]

markAsFailed(req, message) == [req EXCEPT !.status = "failed", !.message = message]

\* a check that lets every request through
Completable_Any(req) == TRUE

\* the status check of completeIdentificationRequest
Completable(req) == req.status \in {"pending", "processing"}

CreateNotifs(u) ==
  [i \in 1..Cardinality(ActiveAdmins("m_admin", address[u])) |->
     Notif(SetToSeq(ActiveAdmins("m_admin", address[u]))[i],
           "identification_request_created", 0)]

CreateIdentificationRequest(u, hasFile, sinkOk) ==
  /\ Len(idreqs) < MaxRequests
  /\ IF ~hasFile
     THEN /\ resp' = Resp("identify", u, 0, 400)
          /\ UNCHANGED <<idreqs, notifications>>
     ELSE /\ idreqs' = Append(idreqs, NewRequest(u))
          /\ notifications' = NotifyStore(CreateNotifs(u), sinkOk)
          /\ resp' = Resp("identify", u, Len(idreqs) + 1,
                          NotifyCode(CreateNotifs(u), sinkOk, 201))
  /\ UNCHANGED <<cattle, holdings, transfers, procs, address>>

StartProcessingRequest(a, r, sinkOk) ==
  LET ns == <<Notif(idreqs[r].user, "identification_processing_started", r)>>
  IN /\ IF ~mAdminOnly(a)
        THEN /\ resp' = Resp("start", a, r, 403)
             /\ UNCHANGED <<idreqs, notifications>>
        ELSE IF r > Len(idreqs)
        THEN /\ resp' = Resp("start", a, r, 404)
             /\ UNCHANGED <<idreqs, notifications>>
        ELSE IF idreqs[r].status # "pending"
        THEN /\ resp' = Resp("start", a, r, 400)
             /\ UNCHANGED <<idreqs, notifications>>
        ELSE /\ idreqs' = [idreqs EXCEPT ![r] = startProcessing(@, a)]
             /\ notifications' = NotifyStore(ns, sinkOk)
             /\ resp' = Resp("start", a, r, NotifyCode(ns, sinkOk, 200))
     /\ UNCHANGED <<cattle, holdings, transfers, procs, address>>

\* hasFound is false when the body leaves found out; cattleId is NoId when absent.
\* The notification message reads cattle.cattleId whenever found is true,
\* which throws when no cattle was looked up.
CompleteIdentificationRequest(a, r, hasFound, found, cattleId, sinkOk) ==
  LET c == IF found /\ cattleId # NoId THEN cattleId ELSE NoId
      ns == <<Notif(idreqs[r].user,
                    IF found THEN "identification_found"
                    ELSE "identification_not_found", r)>>
  IN IF ~mAdminOnly(a)
     THEN /\ resp' = Resp("complete", a, r, 403)
          /\ UNCHANGED <<cattle, holdings, transfers, idreqs, notifications, procs, address>>
     ELSE IF ~hasFound
     THEN /\ resp' = Resp("complete", a, r, 400)
          /\ UNCHANGED <<cattle, holdings, transfers, idreqs, notifications, procs, address>>
     ELSE IF r > Len(idreqs)
     THEN /\ resp' = Resp("complete", a, r, 404)
          /\ UNCHANGED <<cattle, holdings, transfers, idreqs, notifications, procs, address>>
     ELSE IF ~Completable(idreqs[r])
     THEN /\ resp' = Resp("complete", a, r, 400)
          /\ UNCHANGED <<cattle, holdings, transfers, idreqs, notifications, procs, address>>
     ELSE IF c # NoId /\ ~cattle[c].exists
     THEN /\ resp' = Resp("complete", a, r, 404)
          /\ UNCHANGED <<cattle, holdings, transfers, idreqs, notifications, procs, address>>
     ELSE /\ idreqs' = [idreqs EXCEPT ![r] = completeWithResult(@, found, c)]
          /\ cattle' = IF c = NoId THEN cattle
                       ELSE [cattle EXCEPT ![c].identCount = @ + 1]
          /\ IF found /\ c = NoId
             THEN /\ resp' = Resp("complete", a, r, 500)
                  /\ UNCHANGED notifications
             ELSE /\ notifications' = NotifyStore(ns, sinkOk)
                  /\ resp' = Resp("complete", a, r, NotifyCode(ns, sinkOk, 200))
          /\ UNCHANGED <<holdings, transfers, procs, address>>

\* the status check of failIdentificationRequest
Failable(req) == req.status \notin {"completed", "cancelled"}

\* reason is the optional body field stored as adminNotes by a second save
FailIdentificationRequest(a, r, message, reason, sinkOk) ==
  LET ns == <<Notif(idreqs[r].user, "identification_failed", r)>>
  IN /\ IF ~mAdminOnly(a)
        THEN /\ resp' = Resp("fail", a, r, 403)
             /\ UNCHANGED <<idreqs, notifications>>
        ELSE IF message = None
        THEN /\ resp' = Resp("fail", a, r, 400)
             /\ UNCHANGED <<idreqs, notifications>>
        ELSE IF r > Len(idreqs)
        THEN /\ resp' = Resp("fail", a, r, 404)
             /\ UNCHANGED <<idreqs, notifications>>
        ELSE IF ~Failable(idreqs[r])
        THEN /\ resp' = Resp("fail", a, r, 400)
             /\ UNCHANGED <<idreqs, notifications>>
        ELSE /\ idreqs' = [idreqs EXCEPT ![r] =
                            [markAsFailed(@, message) EXCEPT
                               !.adminNotes = IF reason = None THEN @ ELSE reason]]
             /\ notifications' = NotifyStore(ns, sinkOk)
             /\ resp' = Resp("fail", a, r, NotifyCode(ns, sinkOk, 200))
     /\ UNCHANGED <<cattle, holdings, transfers, procs, address>>

\* a lookup by id alone
OwnRequestQuery_AnyUser(u, r) == r <= Len(idreqs)

\* IdentificationRequest.findOne({ _id, user: req.user._id })
OwnRequestQuery(u, r) == r <= Len(idreqs) /\ idreqs[r].user = u

\* the handler lets a failed request through; the cancel method then throws
CancelIdentificationRequest(u, r) ==
  /\ IF ~OwnRequestQuery(u, r)
     THEN /\ resp' = Resp("cancel", u, r, 404)
          /\ UNCHANGED idreqs
     ELSE IF idreqs[r].status \in {"completed", "cancelled"}
     THEN /\ resp' = Resp("cancel", u, r, 400)
          /\ UNCHANGED idreqs
     ELSE IF idreqs[r].status \notin {"pending", "processing"}
     THEN /\ resp' = Resp("cancel", u, r, 500)
          /\ UNCHANGED idreqs
     ELSE /\ idreqs' = [idreqs EXCEPT ![r].status = "cancelled", ![r].cancelledBy = u]
          /\ resp' = Resp("cancel", u, r, 200)
  /\ UNCHANGED <<cattle, holdings, transfers, notifications, procs, address>>

\* IdentificationRequest.cleanupExpired: the requests whose expiresAt has
\* passed are the k oldest; those still pending or processing become failed
CleanupExpiredRequests(k) ==
  /\ idreqs' = [r \in 1..Len(idreqs) |->
                  IF r <= k /\ idreqs[r].status \in {"pending", "processing"}
                  THEN [idreqs[r] EXCEPT !.status = "failed", !.message = "Request expired"]
                  ELSE idreqs[r]]
  /\ resp' = Resp("expire", None, k, 0)
  /\ UNCHANGED <<cattle, holdings, transfers, notifications, procs, address>>

ExpireIdent == \E k \in 1..Len(idreqs) : CleanupExpiredRequests(k)

CreateIdent == \E u \in Users, hasFile \in BOOLEAN, sinkOk \in BOOLEAN :
                 CreateIdentificationRequest(u, hasFile, sinkOk)

StartIdent == \E a \in Admins, r \in RequestIds, sinkOk \in BOOLEAN :
                StartProcessingRequest(a, r, sinkOk)

CompleteIdent == \E a \in Admins, r \in RequestIds, hasFound \in BOOLEAN, found \in BOOLEAN,
                    cattleId \in CattleIds \cup {NoId}, sinkOk \in BOOLEAN :
                   CompleteIdentificationRequest(a, r, hasFound, found, cattleId, sinkOk)

FailIdent == \E a \in Admins, r \in RequestIds, m \in {None, "blurred"}, sinkOk \in BOOLEAN :
               FailIdentificationRequest(a, r, m, None, sinkOk)

CancelIdent == \E u \in Users, r \in RequestIds : CancelIdentificationRequest(u, r)

NextIdent ==
  CreateIdent \/ StartIdent \/ CompleteIdent \/ FailIdent \/ CancelIdent \/ ExpireIdent \/ Delete

SpecIdent == Init /\ [][NextIdent]_vars

\* the request workflow on its own, the herd left as it is
NextIdentStatus ==
  CreateIdent \/ StartIdent \/ CompleteIdent \/ FailIdent \/ CancelIdent \/ ExpireIdent

SpecIdentStatus == Init /\ [][NextIdentStatus]_vars

\* the failure messages and notes an identifier admin may send
FailMessages == {None, "blurred", "no animal in picture"}

FailWithNotes == \E a \in Admins, r \in RequestIds, m \in FailMessages,
                    reason \in Reasons, sinkOk \in BOOLEAN :
                   FailIdentificationRequest(a, r, m, reason, sinkOk)

NextIdentFail == CreateIdent \/ StartIdent \/ CompleteIdent \/ FailWithNotes \/ CancelIdent

SpecIdentFail == Init /\ [][NextIdentFail]_vars

\* ---------------------------------------- pending list of the identifier
\* User.find({ 'address.state': assignedRegion.state }), run for m_admin only
RegionUserIds(a) ==
  IF AdminRole(a) = "m_admin"
  THEN {u \in Users : address[u] = AssignedRegion(a)}
  ELSE {}

\* IdentificationRequest.find(query): the user filter is added to the query
\* only when userIds is not empty
PendingRequestsQuery(a) ==
  {r \in 1..Len(idreqs) :
     /\ idreqs[r].status \in {"pending", "processing"}
     /\ (RegionUserIds(a) # {} => idreqs[r].user \in RegionUserIds(a))}

\* GET /admin/m-admin/identification/pending; the response carries the
\* number of requests found (pagination.total)
GetPendingIdentificationRequests(a) ==
  /\ resp' = IF ~mAdminOnly(a) THEN Resp("list", a, 0, 403)
              ELSE Resp("list", a, Cardinality(PendingRequestsQuery(a)), 200)
  /\ UNCHANGED <<cattle, holdings, transfers, idreqs, notifications, procs, address>>

ListPending == \E a \in Admins : GetPendingIdentificationRequests(a)

NextIdentList == CreateIdent \/ StartIdent \/ CancelIdent \/ UpdateProfile \/ ListPending

SpecIdentList == Init /\ [][NextIdentList]_vars

\* ================================================================ claims
TerminalStates == {"approved", "rejected", "denied_by_regional"}
AdminOps == {"forward", "deny", "approve", "reject"}
RefusalCodes == {400, 403, 404}

\* C1: once a cattle's verification.status is approved, rejected or
\* denied_by_regional, every Forward, Deny, Approve or Reject call on it is
\* refused and leaves the whole cattle document (verification.status, the
\* reviewer/verifier stamps, the lifecycle status) unchanged.
C1_TerminalIsFinal ==
  [][\A c \in CattleIds :
       (/\ cattle[c].exists
        /\ cattle[c].vstatus \in TerminalStates
        /\ resp'.op \in AdminOps
        /\ resp'.target = c)
       => /\ resp'.code \in RefusalCodes
          /\ cattle'[c] = cattle[c]]_vars

C1_Witness ==
  \E c \in CattleIds :
    /\ resp = Resp("reject", "ma1", c, 404)
    /\ cattle[c].vstatus = "approved"
    /\ cattle[c].state = "Texas"

\* C6 as stated: approved iff lifecycle active and the 14 images 3/3/3/3/1/1.
C6_ApprovedIffActive ==
  \A c \in CattleIds :
    cattle[c].exists =>
      (cattle[c].vstatus = "approved"
         <=> (cattle[c].status = "active" /\ validateCattleImages(cattle[c].images)))

\* C6 amended: for every cattle that its owner has not archived, approved iff
\* lifecycle active and the 14 images 3/3/3/3/1/1; an archived cattle keeps
\* whatever verification status it had.
C6_ApprovedIffActiveUnlessArchived ==
  \A c \in CattleIds :
    (cattle[c].exists /\ cattle[c].status # "archive") =>
      (cattle[c].vstatus = "approved"
         <=> (cattle[c].status = "active" /\ validateCattleImages(cattle[c].images)))

C6_Witness ==
  \E c \in CattleIds :
    /\ cattle[c].vstatus = "approved"
    /\ cattle[c].status = "active"
    /\ cattle[c].archivedBy = None
    /\ resp = Resp("restore", cattle[c].owner, c, 200)

\* the tier an operation's route is declared for
OpTier(op) == IF op \in {"forward", "deny"} THEN "regional_admin" ELSE "m_admin"

C9_NotificationFailureSwallowed ==
  [][(resp'.op \in AdminOps /\ cattle' # cattle) => resp'.code = 200]_vars

\* C2: of the Forward and Deny requests that run concurrently on one cattle
\* at most one is applied: a regional review is only ever saved onto a cattle
\* that is still in pending_regional_review.
C2_OneRegionalReview ==
  [][\A c \in CattleIds :
       (resp'.op \in {"forward", "deny"} /\ cattle'[c] # cattle[c])
         => cattle[c].vstatus = "pending_regional_review"]_vars

\* C3: in every reachable state at most one TransferRequest with status
\* pending exists per cattle, however the Initiate calls interleave.
C3_OnePendingPerCattle ==
  \A c \in CattleIds : Cardinality(PendingTransfers(c)) <= 1

\* what Accept writes for transfer t, one flag per write
AcceptWrites(t) ==
  LET c == transfers[t].cattle
  IN {transfers[t].status = "accepted",
      cattle[c].owner = transfers[t].toOwner,
      \E k \in 1..Len(cattle[c].transferHistory) : cattle[c].transferHistory[k] = t,
      c \notin holdings[transfers[t].fromOwner],
      c \in holdings[transfers[t].toOwner]}

\* C4: Accept is all-or-nothing: when an Accept has failed and no other
\* request is in flight, the transfer status, the cattle owner, the transfer
\* history and both holdings lists are either all updated or all untouched.
C4_AcceptAllOrNothing ==
  (resp.op = "accept" /\ resp.code = 500 /\ procs = << >>)
    => Cardinality(AcceptWrites(resp.target)) = 1

\* C5: of the Accept requests that run concurrently on one pending transfer
\* exactly one succeeds: an Accept only reports success for a transfer that
\* was still pending in the store when its last write went out.
C5_AcceptOnce ==
  [][(resp'.op = "accept" /\ resp'.code = 200 /\ Len(procs') < Len(procs))
       => transfers[resp'.target].status = "pending"]_vars

\* C7: for every IdentificationRequest, result.found = true implies that
\* result.cattle is set and refers to a Cattle record that exists.
C7_FoundHasCattle ==
  \A r \in 1..Len(idreqs) :
    idreqs[r].found =>
      /\ idreqs[r].cattle # NoId
      /\ cattle[idreqs[r].cattle].exists

\* C11: a Deny by a regional admin and a Reject by an identifier admin whose
\* body carries no reason are answered 400 and leave every cattle and the
\* notifications as they were.
C11_NoReasonRefused ==
  [][(/\ resp'.op \in {"deny", "reject"}
      /\ \E body \in Bodies, sinkOk \in BOOLEAN :
           /\ body.reason = None
           /\ \/ /\ regionalAdminOnly(resp'.by)
                 /\ DenyCattleByRegionalAdmin(resp'.by, resp'.target, body, sinkOk)
              \/ /\ mAdminOnly(resp'.by)
                 /\ RejectCattleByMAdmin(resp'.by, resp'.target, body, sinkOk))
       => (resp'.code = 400 /\ cattle' = cattle /\ notifications' = notifications)]_vars

\* a Deny was refused with 400 on a cattle of the caller's region that is
\* still waiting for its regional review
C11_Witness ==
  \E c \in CattleIds :
    /\ resp = Resp("deny", "ra1", c, 400)
    /\ cattle[c].state = "Texas"
    /\ cattle[c].vstatus = "pending_regional_review"

\* C12: Archive sets the lifecycle status to archive and Restore returns it
\* to active when verification.status is approved and to transit otherwise;
\* neither changes verification.status, and Restore clears archivedBy.
C12_ArchiveRestoreRoundTrip ==
  [][\A c \in CattleIds :
       /\ (resp'.op = "archive" /\ resp'.target = c /\ resp'.code = 200) =>
            /\ cattle'[c].status = "archive"
            /\ cattle'[c].archivedBy = resp'.by
            /\ cattle'[c].vstatus = cattle[c].vstatus
       /\ (resp'.op = "restore" /\ resp'.target = c /\ resp'.code = 200) =>
            /\ cattle[c].status = "archive"
            /\ cattle'[c].status =
                 IF cattle[c].vstatus = "approved" THEN "active" ELSE "transit"
            /\ cattle'[c].vstatus = cattle[c].vstatus
            /\ cattle'[c].archivedBy = None]_vars

\* a cattle that was never approved has been archived and restored
C12_Witness ==
  \E c \in CattleIds :
    /\ resp = Resp("restore", cattle[c].owner, c, 200)
    /\ cattle[c].vstatus = "denied_by_regional"
    /\ cattle[c].status = "transit"

\* C13: a Forward, Deny, Approve or Reject call by a global administrator
\* (super_admin) is never refused on the grounds of the caller's role: it is
\* never answered 403.
C13_GlobalAdminNotRefused ==
  [][(resp'.op \in AdminOps /\ resp'.by \in Admins /\ AdminRole(resp'.by) = "super_admin")
       => resp'.code # 403]_vars

VerificationEdges ==
  {<<"pending_regional_review", "forwarded_to_m_admin">>,
   <<"pending_regional_review", "denied_by_regional">>,
   <<"forwarded_to_m_admin", "approved">>,
   <<"forwarded_to_m_admin", "rejected">>}

IdentificationEdges ==
  {<<"pending", "processing">>} \cup
  ({"pending", "processing"} \X {"completed", "failed", "cancelled"})

\* C16: an IdentificationRequest's status only moves pending -> processing
\* and pending | processing -> completed | failed | cancelled; a completed,
\* failed or cancelled request never changes status again, and StartProcessing
\* succeeds only on a pending request.
C16_IdentificationPath ==
  [][/\ \A r \in 1..Len(idreqs) :
          idreqs'[r].status # idreqs[r].status
            => <<idreqs[r].status, idreqs'[r].status>> \in IdentificationEdges
     /\ (resp'.op = "start" /\ resp'.target \in 1..Len(idreqs)
          /\ idreqs' # idreqs)
         => idreqs[resp'.target].status = "pending"]_vars

\* a request went from processing to failed, and a later Complete on it
\* was refused
C16_Witness ==
  \E r \in 1..Len(idreqs) :
    /\ idreqs[r].status = "failed"
    /\ idreqs[r].processedBy # None
    /\ resp = Resp("complete", "ma1", r, 400)

TransferOps == {"accept", "refuse", "withdraw"}

\* the party a transfer operation belongs to
RightParty(op, t) ==
  IF op = "withdraw" THEN transfers[t].fromOwner ELSE transfers[t].toOwner

\* C17: a TransferRequest changes status only from pending and only through
\* Accept or Reject by its toOwner or Cancel by its fromOwner; such a call on
\* a request that is no longer pending, or by any other user, is answered
\* 404 and changes neither the requests nor the cattle nor the holdings.
C17_TransferByRightParty ==
  [][/\ (resp'.op \in TransferOps /\ resp'.target \in TransferIds
          /\ (transfers[resp'.target].status # "pending"
               \/ resp'.by # RightParty(resp'.op, resp'.target)))
         => (resp'.code = 404 /\ transfers' = transfers
             /\ cattle' = cattle /\ holdings' = holdings)
     /\ \A t \in TransferIds :
          transfers'[t].status # transfers[t].status
            => /\ transfers[t].status = "pending"
               /\ resp'.op \in TransferOps /\ resp'.target = t
               /\ resp'.by = RightParty(resp'.op, t)]_vars

\* the sender of a pending transfer tried to accept it himself and was refused
C17_Witness ==
  \E t \in TransferIds :
    /\ resp = Resp("accept", transfers[t].fromOwner, t, 404)
    /\ transfers[t].status = "pending"

\* C18: after a successful Accept of transfer t, t is accepted, its cattle
\* is owned by t.toOwner and lists t in its transferHistory, and the cattle
\* has left the previous owner's holdings and is in t.toOwner's holdings.
C18_AcceptMovesOwnership ==
  [][(resp'.op = "accept" /\ resp'.code = 200)
       => LET t == resp'.target
              c == transfers[t].cattle
          IN /\ transfers'[t].status = "accepted"
             /\ cattle'[c].exists
             /\ cattle'[c].owner = transfers[t].toOwner
             /\ \E k \in 1..Len(cattle'[c].transferHistory) :
                  cattle'[c].transferHistory[k] = t
             /\ c \notin holdings'[transfers[t].fromOwner]
             /\ c \in holdings'[transfers[t].toOwner]]_vars

\* C19: Initiate with toOwner equal to the initiating owner fails, creates
\* no TransferRequest and sends no notification; no TransferRequest ever has
\* fromOwner = toOwner.
C19_NoSelfTransfer ==
  [][/\ \A u \in Users, c \in CattleIds, validBody \in BOOLEAN, sinkOk \in BOOLEAN :
          InitiateCattleTransfer(u, c, u, validBody, sinkOk)
            => (resp'.code \notin {200, 201} /\ transfers' = transfers
                /\ notifications' = notifications)
     /\ \A t \in 1..Len(transfers') :
          transfers'[t].fromOwner # transfers'[t].toOwner]_vars

\* the owner of an active cattle without a pending transfer named himself
\* as the receiver and the create failed
C19_Witness ==
  \E c \in CattleIds :
    /\ resp = Resp("initiate", cattle[c].owner, c, 500)
    /\ cattle[c].status = "active"
    /\ transfers = << >>

\* C20: once the expiry time of a pending TransferRequest has passed it is
\* never accepted or rejected.
C20_ExpiredNeverAccepted ==
  [][(resp'.op \in {"accept", "refuse"} /\ resp'.code = 200)
       => ~transfers[resp'.target].expired]_vars

\* C21: a MarkFailed call on an IdentificationRequest that is completed,
\* failed or cancelled leaves the request (status, result.message,
\* adminNotes) and the notifications as they were.
C21_FailOnlyFromOpen ==
  [][(/\ resp'.op = "fail"
      /\ resp'.target \in 1..Len(idreqs)
      /\ idreqs[resp'.target].status \in {"completed", "failed", "cancelled"})
       => (idreqs' = idreqs /\ notifications' = notifications)]_vars

\* C22: Cancel on an IdentificationRequest succeeds only when the caller is
\* the farmer who created it and its status is pending or processing, and
\* then marks it cancelled by that farmer; in every other case it is refused
\* and no request changes.  No other operation cancels a request.
C22_CancelOnlyByOwnerWhileOpen ==
  [][/\ (resp'.op = "cancel" /\ resp'.target \in 1..Len(idreqs)) =>
          IF /\ idreqs[resp'.target].user = resp'.by
             /\ idreqs[resp'.target].status \in {"pending", "processing"}
          THEN /\ resp'.code = 200
               /\ idreqs' = [idreqs EXCEPT ![resp'.target].status = "cancelled",
                                            ![resp'.target].cancelledBy = resp'.by]
          ELSE /\ resp'.code \in {400, 404, 500}
               /\ idreqs' = idreqs
     /\ (resp'.op = "cancel" /\ resp'.target \notin 1..Len(idreqs)) =>
          (resp'.code = 404 /\ idreqs' = idreqs)
     /\ \A r \in 1..Len(idreqs) :
          (idreqs'[r].status = "cancelled" /\ idreqs[r].status # "cancelled")
            => (resp'.op = "cancel" /\ resp'.target = r /\ resp'.by = idreqs[r].user)]_vars

\* a farmer other than the requester tried to cancel a request that an
\* identifier admin is processing, and was refused
C22_Witness ==
  \E r \in 1..Len(idreqs) :
    /\ resp.op = "cancel" /\ resp.target = r /\ resp.code = 404
    /\ resp.by # idreqs[r].user
    /\ idreqs[r].status = "processing"

\* C23: a successful Approve sets verification.status to approved and the
\* lifecycle status to active, clears the temporary id, stamps the approving
\* admin, and makes the cattle's identificationHistory one entry longer.
C23_ApproveEffects ==
  [][\A c \in CattleIds :
       (resp'.op = "approve" /\ resp'.target = c /\ resp'.code = 200) =>
         /\ cattle'[c].vstatus = "approved"
         /\ cattle'[c].status = "active"
         /\ ~cattle'[c].tempId
         /\ cattle'[c].verifiedBy = resp'.by
         /\ cattle'[c].identCount = cattle[c].identCount + 1]_vars

\* C24: the location state of a stored cattle never changes, whatever
\* operation runs: a profile update of its owner, Forward, Deny, Approve,
\* Reject, Archive, Restore, or a Transfer Accept that hands it to an owner
\* whose address is in another state.
C24_LocationImmutable ==
  [][\A c \in CattleIds :
       (cattle[c].exists /\ cattle'[c].exists)
         => cattle'[c].state = cattle[c].state]_vars

\* an accepted transfer has handed a cattle to an owner whose address is
\* in another state than the cattle's location
C24_Witness ==
  \E c \in CattleIds :
    /\ cattle[c].exists
    /\ resp.op = "accept" /\ resp.code = 200
    /\ cattle[c].owner # SeedOwner(c)
    /\ address[cattle[c].owner] # cattle[c].state

\* C25: a Register whose image counts are not exactly muzzle 3, face 3,
\* left 3, right 3, fullBodyLeft 1, fullBodyRight 1 is refused by the image
\* validation with 400, creates no cattle, adds nothing to any holdings and
\* notifies nobody; and every cattle waiting in pending_regional_review or
\* forwarded_to_m_admin holds the complete image set.
C25_IncompleteUploadRefused ==
  [][/\ resp'.op \in {"upload", "register"} =>
          \A files \in Uploads \ {FullImages}, sinkOk \in BOOLEAN :
            RegisterCattle(resp'.by, files, sinkOk)
              => /\ resp' = Resp("upload", resp'.by, 0, 400)
                 /\ cattle' = cattle
                 /\ holdings' = holdings
                 /\ notifications' = notifications
     /\ \A c \in CattleIds :
          (cattle'[c].exists
             /\ cattle'[c].vstatus \in {"pending_regional_review", "forwarded_to_m_admin"})
            => (cattle'[c].images = FullImages /\ totalImages(cattle'[c].images) = 14)]_vars

\* an upload was refused although the collection had room for a new cattle
C25_Witness ==
  /\ resp.op = "upload" /\ resp.code = 400
  /\ FreeIds # {}
  /\ holdings[resp.by] = {}

\* C26: a Forward, Deny, Approve or Reject on a cattle whose lifecycle
\* status is archive leaves that lifecycle status and archivedBy as they were.
C26_ArchivedStaysArchived ==
  [][\A c \in CattleIds :
       (/\ resp'.op \in AdminOps
        /\ resp'.target = c
        /\ cattle[c].exists
        /\ cattle[c].status = "archive")
       => /\ cattle'[c].status = "archive"
          /\ cattle'[c].archivedBy = cattle[c].archivedBy]_vars

\* C27: the expiry sweep only ever writes a TransferRequest that is still
\* pending in the store at the moment of the write, so an accepted, rejected
\* or cancelled request is never turned into one cancelled as expired.
C27_SweepWritesPendingOnly ==
  [][\A t \in TransferIds :
       (resp'.op = "expire" /\ resp'.target = t /\ Len(procs') < Len(procs))
         => transfers[t].status = "pending"]_vars

\* C28: an Accept only succeeds for a transfer whose cattle exists, and
\* every pending TransferRequest refers to a cattle that exists.
C28_NoTransferOfDeletedCattle ==
  [][/\ (resp'.op = "accept" /\ resp'.code = 200)
          => cattle[transfers[resp'.target].cattle].exists
     /\ \A t \in 1..Len(transfers') :
          transfers'[t].status = "pending" => cattle'[transfers'[t].cattle].exists]_vars

\* C29: the owner of a cattle is only ever replaced while the cattle's
\* lifecycle status is active.
C29_OwnerChangesWhileActive ==
  [][\A c \in CattleIds :
       (cattle[c].exists /\ cattle'[c].exists /\ cattle'[c].owner # cattle[c].owner)
         => cattle[c].status = "active"]_vars

\* C30: every request in the pending list returned to an identifier admin
\* was made by a farmer whose address state is the admin's assigned region.
C30_PendingListInRegion ==
  [][(resp'.op = "list" /\ resp'.code = 200) =>
       \A r \in PendingRequestsQuery(resp'.by) :
         address[idreqs[r].user] = AssignedRegion(resp'.by)]_vars

\* C10: Register with 3/3/3/3/1/1 images yields a cattle in
\* pending_regional_review; a Forward yields forwarded_to_m_admin with the
\* owner notified; an identifier admin gets through to Approve.
C10_ApprovalPath ==
  /\ resp.op = "register" =>
       /\ resp.code = 201
       /\ resp.target \in CattleIds
       /\ cattle[resp.target].vstatus = "pending_regional_review"
  /\ \A c \in CattleIds :
       (cattle[c].exists /\ cattle[c].vstatus = "forwarded_to_m_admin") =>
         BagIn(Notif(cattle[c].owner, "cattle_forwarded_to_m_admin", c), notifications)
  /\ (\E c \in CattleIds : cattle[c].vstatus = "forwarded_to_m_admin") =>
       \A a \in Admins : AdminRole(a) = "m_admin" => (protect(a) /\ adminOnly(a))
====
